---- MODULE Spec2Model ----
(***************************************************************************)
(* Resume ingestion (ResumeController.importFile, ResumeService.           *)
(* importFromFile, ResumeService.ocrPdfBuffer, OcrService.                 *)
(* recognizeImageBuffer) and the heuristic text parser (ParserService.     *)
(* parse) of apps/server/src/resume.                                       *)
(*                                                                         *)
(* A JavaScript string is a sequence of one-character strings.  The        *)
(* characters that are not printable ASCII are written "LF" (\n), "CR"     *)
(* (\r), "TAB" (\t), "EN" (en dash), "EM" (em dash), "BULLET" and "MIDDOT".*)
(***************************************************************************)
EXTENDS Integers, Sequences, FiniteSets, TLC

\* ------------------------------------------------------------------------
\* Bounds of the model
\* ------------------------------------------------------------------------

\* Largest number of pages the rasterizer yields.
MaxPages == 3

\* Largest run of white space put before and after a native PDF text.
MaxPad == 1

\* How far past the OCR threshold the native PDF text lengths go.
MaxOver == 1

\* Largest number of lines of a composed parser input.
MaxLines == 3

\* ------------------------------------------------------------------------
\* Program constants
\* ------------------------------------------------------------------------

\* ResumeService.importFromFile: text.trim().length < 20
OcrThreshold == 20

\* ParserService.parse: lines.slice(0, 30)
SkillScanLimit == 30

\* ------------------------------------------------------------------------
\* JavaScript string primitives
\* ------------------------------------------------------------------------

UpperLetters == <<"A", "B", "C", "D", "E", "F", "G", "H", "I", "J", "K", "L", "M", "N", "O", "P", "Q", "R", "S", "T", "U", "V", "W", "X", "Y", "Z">>

LowerLetters == <<"a", "b", "c", "d", "e", "f", "g", "h", "i", "j", "k", "l", "m", "n", "o", "p", "q", "r", "s", "t", "u", "v", "w", "x", "y", "z">>

Digits == {"0", "1", "2", "3", "4", "5", "6", "7", "8", "9"}

DigitChar == <<"0", "1", "2", "3", "4", "5", "6", "7", "8", "9">>

\* The white space String.prototype.trim removes and \s matches.
WhiteSpace == {" ", "TAB", "LF", "CR"}

Range(s) == {s[i] : i \in 1..Len(s)}

SetMin(S) == CHOOSE x \in S : \A y \in S : x <= y

SetMax(S) == CHOOSE x \in S : \A y \in S : y <= x

\* String.prototype.toLowerCase, one character.
LowerChar(c) ==
  IF \E i \in 1..Len(UpperLetters) : UpperLetters[i] = c
  THEN LowerLetters[CHOOSE i \in 1..Len(UpperLetters) : UpperLetters[i] = c]
  ELSE c

\* String.prototype.toLowerCase.
ToLowerCase(s) == [i \in 1..Len(s) |-> LowerChar(s[i])]

\* String.prototype.trim.
Trim(s) ==
  LET keep == {i \in 1..Len(s) : s[i] \notin WhiteSpace}
  IN  IF keep = {} THEN <<>> ELSE SubSeq(s, SetMin(keep), SetMax(keep))

\* Whether p occurs in s at position i.
OccursAt(s, p, i) ==
  /\ i >= 1
  /\ i + Len(p) - 1 <= Len(s)
  /\ \A j \in 1..Len(p) : s[i + j - 1] = p[j]

\* String.prototype.startsWith.
StartsWith(s, p) == OccursAt(s, p, 1)

\* String.prototype.includes.
Includes(s, p) == \E i \in 1..(Len(s) + 1) : OccursAt(s, p, i)

\* s repeated n times.
RECURSIVE Repeat(_, _)
Repeat(s, n) == IF n = 0 THEN <<>> ELSE s \o Repeat(s, n - 1)

\* ------------------------------------------------------------------------
\* State
\* ------------------------------------------------------------------------

VARIABLES
  pc,            \* where the ingestion call stands
  via,           \* "controller": through ResumeController.importFile; "service": importFromFile called directly
  mime,          \* file.mimetype as declared by the client
  branch,        \* the branch of importFromFile the MIME type selected
  text,          \* the local `text` of importFromFile (of importFile on its image path)
  nativeText,    \* what the pdf-parse step left in `text`
  extractStep,   \* how the extractor of the branch (pdf-parse, mammoth) ended
  rasterStep,    \* how convert.bulk of ocrPdfBuffer ended
  pages,         \* result of convert.bulk: per page, whether it carries base64 data
  pageIdx,       \* the page the OCR loop of ocrPdfBuffer stands at
  extractedText, \* ocrPdfBuffer's local `extractedText`
  ocrText,       \* what ocrPdfBuffer returned
  recognized,    \* per page visited: whether OCR ran, whether its backend failed, the text returned
  rasterCalls,   \* calls of ocrPdfBuffer (the rasterizer)
  ocrCalls,      \* calls of OcrService.recognizeImageBuffer
  ocrRaised,     \* whether a call of recognizeImageBuffer ended by throwing
  outcome,       \* how the call ended
  ptext,         \* parse: the argument `text`
  praw,          \* parse: `raw`
  plines,        \* parse: `lines`
  pidx,          \* parse: the line the section loop stands at
  pstate,        \* parse: currentSection, experience, education
  pname,         \* parse: name
  pskills,       \* parse: skills
  ppc,           \* parse: where the call stands
  resumes,       \* store: the resume rows, a row's id is its place
  calls,         \* store: the service calls in flight or ended
  uniqueSlug     \* store: whether the resume table rejects a second (userId, slug)

ingestVars ==
  <<via, mime, branch, text, nativeText, extractStep, rasterStep, pages, pageIdx,
    extractedText, ocrText, recognized, rasterCalls, ocrCalls, ocrRaised, outcome>>

parseVars == <<ptext, praw, plines, pidx, pstate, pname, pskills, ppc>>

storeVars == <<resumes, calls, uniqueSlug>>

vars == <<pc, ingestVars, parseVars, storeVars>>

\* ------------------------------------------------------------------------
\* ParserService.parse: the pure pieces
\* ------------------------------------------------------------------------

\* A parser that trims its input before keeping it.
RawOfTrimmed(t) == Trim(t)

\* const raw = text ?? ""
RawOf(t) == t

\* String.prototype.split on a one-character separator class: every piece,
\* the empty ones included.
RECURSIVE SplitOn(_, _)
SplitOn(s, seps) ==
  LET hits == {i \in 1..Len(s) : s[i] \in seps}
  IN  IF hits = {} THEN <<s>>
      ELSE LET i == SetMin(hits)
           IN  <<SubSeq(s, 1, i - 1)>> \o SplitOn(SubSeq(s, i + 1, Len(s)), seps)

\* Array.prototype.join.
RECURSIVE JoinWith(_, _)
JoinWith(parts, sep) ==
  IF parts = <<>> THEN <<>>
  ELSE IF Len(parts) = 1 THEN parts[1]
  ELSE parts[1] \o sep \o JoinWith(Tail(parts), sep)

\* .map((s) => s.trim()).filter(Boolean)
TrimAndDropEmpty(parts) ==
  SelectSeq([i \in 1..Len(parts) |-> Trim(parts[i])], LAMBDA p : p # <<>>)

\* raw.split(/\r?\n/): a line ends at "LF"; one "CR" right before it belongs
\* to the separator.
RECURSIVE SplitLines(_)
SplitLines(s) ==
  LET hits == {i \in 1..Len(s) : s[i] = "LF"}
  IN  IF hits = {} THEN <<s>>
      ELSE LET i == SetMin(hits)
               e == IF i > 1 /\ s[i - 1] = "CR" THEN i - 2 ELSE i - 1
           IN  <<SubSeq(s, 1, e)>> \o SplitLines(SubSeq(s, i + 1, Len(s)))

\* const lines = raw.split(/\r?\n/).map((l) => l.trim()).filter(Boolean)
Lines(raw) == TrimAndDropEmpty(SplitLines(raw))

NameChars == Range(UpperLetters) \cup Range(LowerLetters) \cup {" ", ",", ".", "'", "-"}

\* candidate.split(/\s+/).length, for a trimmed non-empty candidate: one more
\* than the number of white-space runs.
TokenCount(c) ==
  1 + Cardinality({i \in 2..Len(c) : c[i] \in WhiteSpace /\ c[i - 1] \notin WhiteSpace})

\* A name test whose character class has no dash.
NameAcceptedNoDash(c) ==
  /\ Len(c) >= 2
  /\ Len(c) <= 80
  /\ \A i \in 1..Len(c) : c[i] \in NameChars \ {"-"}
  /\ TokenCount(c) <= 5

\* A name test that takes fewer than five tokens.
NameAcceptedUnderFive(c) ==
  /\ Len(c) >= 2
  /\ Len(c) <= 80
  /\ \A i \in 1..Len(c) : c[i] \in NameChars
  /\ TokenCount(c) < 5

\* /^[A-Za-z ,.'-]{2,80}$/.test(candidate) && candidate.split(/\s+/).length <= 5
NameAccepted(c) ==
  /\ Len(c) >= 2
  /\ Len(c) <= 80
  /\ \A i \in 1..Len(c) : c[i] \in NameChars
  /\ TokenCount(c) <= 5

\* let name; if (lines.length > 0) { const candidate = lines[0]; if (...) name = candidate; }
\* `has` is FALSE for name === undefined.
ExtractName(lines) ==
  IF Len(lines) > 0 /\ NameAccepted(lines[1])
  THEN [has |-> TRUE, value |-> lines[1]]
  ELSE [has |-> FALSE, value |-> <<>>]

\* /^skills?/i.test(line) || line.toLowerCase().includes("skill")
IsSkillLine(line) ==
  \/ StartsWith(ToLowerCase(line), <<"s", "k", "i", "l", "l">>)
  \/ Includes(ToLowerCase(line), <<"s", "k", "i", "l", "l">>)

\* line.split(/[:\-–]|\n/).slice(1).join(" ").split(/[;,|•·]/).map((s) => s.trim()).filter(Boolean)
SkillsOfLine(line) ==
  LET parts == SplitOn(line, {":", "-", "EN", "LF"})
      rest  == JoinWith(Tail(parts), <<" ">>)
  IN  TrimAndDropEmpty(SplitOn(rest, {";", ",", "|", "BULLET", "MIDDOT"}))

\* for (const line of lines.slice(0, 30)) { if (...) { skills.push(...parts); break; } }
ExtractSkills(lines) ==
  LET n    == IF Len(lines) < SkillScanLimit THEN Len(lines) ELSE SkillScanLimit
      hits == {i \in 1..n : IsSkillLine(lines[i])}
  IN  IF hits = {} THEN <<>> ELSE SkillsOfLine(lines[SetMin(hits)])

\* /^experience/i.test(line) || /^work experience/i.test(line)
IsExperienceHeader(line) ==
  \/ StartsWith(ToLowerCase(line), <<"e", "x", "p", "e", "r", "i", "e", "n", "c", "e">>)
  \/ StartsWith(ToLowerCase(line), <<"w", "o", "r", "k", " ", "e", "x", "p", "e", "r", "i", "e", "n", "c", "e">>)

\* /^education/i.test(line) || /degree|university|bachelor|master/i.test(line)
IsEducationHeader(line) ==
  \/ StartsWith(ToLowerCase(line), <<"e", "d", "u", "c", "a", "t", "i", "o", "n">>)
  \/ Includes(ToLowerCase(line), <<"d", "e", "g", "r", "e", "e">>)
  \/ Includes(ToLowerCase(line), <<"u", "n", "i", "v", "e", "r", "s", "i", "t", "y">>)
  \/ Includes(ToLowerCase(line), <<"b", "a", "c", "h", "e", "l", "o", "r">>)
  \/ Includes(ToLowerCase(line), <<"m", "a", "s", "t", "e", "r">>)

\* [\-–—@]
DashChars == {"-", "EN", "EM", "@"}

\* [0-9]{4} at position q.
YearAt(s, q) ==
  /\ q >= 1
  /\ q + 3 <= Len(s)
  /\ \A j \in 0..3 : s[q + j] \in Digits

\* Where [0-9]{4} starts when \s*\(?[0-9]{4} matches at position i, 0 when it
\* does not match there.
YearStart(s, i) ==
  LET rest == {j \in i..Len(s) : s[j] \notin WhiteSpace}
  IN  IF rest = {} THEN 0
      ELSE LET j == SetMin(rest)
               q == IF s[j] = "(" THEN j + 1 ELSE j
           IN  IF YearAt(s, q) THEN q ELSE 0

\* The positions of a dash that \s+[\-–—@]\s+ can match with [0-9]{4} to follow.
DashPositions(s) ==
  {d \in 2..(Len(s) - 1) :
     /\ s[d] \in DashChars
     /\ s[d - 1] \in WhiteSpace
     /\ s[d + 1] \in WhiteSpace
     /\ \E q \in (d + 2)..Len(s) : YearAt(s, q)}

\* line.match(/^(.*?)\s+[\-–—@]\s+(.*?)\s*\(?([0-9]{4}.*?)[\)]?$/) with the
\* three groups trimmed: the lazy first group stops at the first dash that
\* lets the rest match, \s+ after it takes the whole white-space run, the lazy
\* second group stops at the first place where \s*\(?[0-9]{4} matches, and the
\* lazy third group leaves one closing parenthesis at the end of the line out.
\* Lines hold no line terminator, so `.` matches every character of them.
EntryMatch(line) ==
  IF DashPositions(line) = {} THEN [ok |-> FALSE, a |-> <<>>, b |-> <<>>, c |-> <<>>]
  ELSE LET d  == SetMin(DashPositions(line))
           p  == SetMin({i \in (d + 1)..Len(line) : line[i] \notin WhiteSpace})
           i0 == SetMin({i \in p..Len(line) : YearStart(line, i) # 0})
           q  == YearStart(line, i0)
           e  == IF line[Len(line)] = ")" THEN Len(line) - 1 ELSE Len(line)
       IN  [ok |-> TRUE,
            a  |-> Trim(SubSeq(line, 1, d - 1)),
            b  |-> Trim(SubSeq(line, p, i0 - 1)),
            c  |-> Trim(SubSeq(line, q, e))]

\* let currentSection = null; const experience = []; const education = [];
SectionInit == [section |-> "none", experience |-> <<>>, education |-> <<>>]

\* A section loop that tries the entry pattern before the header patterns.
SectionStepEntryFirst(st, line) ==
  LET m == EntryMatch(line)
  IN  IF st.section = "experience" /\ m.ok
      THEN [st EXCEPT !.experience =
              Append(@, [title |-> m.a, company |-> m.b, dateRange |-> m.c])]
      ELSE IF st.section = "education" /\ m.ok
      THEN [st EXCEPT !.education =
              Append(@, [degree |-> m.a, institution |-> m.b, dateRange |-> m.c])]
      ELSE IF IsExperienceHeader(line) THEN [st EXCEPT !.section = "experience"]
      ELSE IF IsEducationHeader(line) THEN [st EXCEPT !.section = "education"]
      ELSE st

\* A section loop that puts the newest entry first.
SectionStepNewestFirst(st, line) ==
  IF IsExperienceHeader(line) THEN [st EXCEPT !.section = "experience"]
  ELSE IF IsEducationHeader(line) THEN [st EXCEPT !.section = "education"]
  ELSE LET m == EntryMatch(line)
       IN  IF st.section = "experience" /\ m.ok
           THEN [st EXCEPT !.experience =
                   <<[title |-> m.a, company |-> m.b, dateRange |-> m.c]>> \o @]
           ELSE IF st.section = "education" /\ m.ok
           THEN [st EXCEPT !.education =
                   <<[degree |-> m.a, institution |-> m.b, dateRange |-> m.c]>> \o @]
           ELSE st

\* One iteration of `for (const line of lines)`: headers first (each ends the
\* iteration with `continue`), then the entry pattern in the current section.
SectionStep(st, line) ==
  IF IsExperienceHeader(line) THEN [st EXCEPT !.section = "experience"]
  ELSE IF IsEducationHeader(line) THEN [st EXCEPT !.section = "education"]
  ELSE LET m == EntryMatch(line)
       IN  IF st.section = "experience" /\ m.ok
           THEN [st EXCEPT !.experience =
                   Append(@, [title |-> m.a, company |-> m.b, dateRange |-> m.c])]
           ELSE IF st.section = "education" /\ m.ok
           THEN [st EXCEPT !.education =
                   Append(@, [degree |-> m.a, institution |-> m.b, dateRange |-> m.c])]
           ELSE st

\* The whole section loop.
RECURSIVE SectionLoop(_, _, _)
SectionLoop(st, lines, i) ==
  IF i > Len(lines) THEN st ELSE SectionLoop(SectionStep(st, lines[i]), lines, i + 1)

\* ParserService.parse as a function (email and phone, which no other rule
\* reads, are left out of the record).
Parse(t) ==
  LET raw   == RawOf(t)
      lines == Lines(raw)
      st    == SectionLoop(SectionInit, lines, 1)
  IN  [name       |-> ExtractName(lines),
       skills     |-> ExtractSkills(lines),
       experience |-> st.experience,
       education  |-> st.education,
       raw        |-> raw]

NoParsed ==
  [name |-> [has |-> FALSE, value |-> <<>>], skills |-> <<>>, experience |-> <<>>,
   education |-> <<>>, raw |-> <<>>]

\* ------------------------------------------------------------------------
\* Inputs of the ingestion call
\* ------------------------------------------------------------------------

MimePdf == <<"a", "p", "p", "l", "i", "c", "a", "t", "i", "o", "n", "/", "p", "d", "f">>

MimePdfUpper == <<"A", "p", "p", "l", "i", "c", "a", "t", "i", "o", "n", "/", "P", "D", "F">>

MimeDoc == <<"a", "p", "p", "l", "i", "c", "a", "t", "i", "o", "n", "/", "m", "s", "w", "o", "r", "d">>

MimeDocx == <<"a", "p", "p", "l", "i", "c", "a", "t", "i", "o", "n", "/", "v", "n", "d", ".", "o", "p", "e", "n", "x", "m", "l", "f", "o", "r", "m", "a", "t", "s", "-", "o", "f", "f", "i", "c", "e", "d", "o", "c", "u", "m", "e", "n", "t", ".", "w", "o", "r", "d", "p", "r", "o", "c", "e", "s", "s", "i", "n", "g", "m", "l", ".", "d", "o", "c", "u", "m", "e", "n", "t">>

MimeXlsx == <<"a", "p", "p", "l", "i", "c", "a", "t", "i", "o", "n", "/", "v", "n", "d", ".", "o", "p", "e", "n", "x", "m", "l", "f", "o", "r", "m", "a", "t", "s", "-", "o", "f", "f", "i", "c", "e", "d", "o", "c", "u", "m", "e", "n", "t", ".", "s", "p", "r", "e", "a", "d", "s", "h", "e", "e", "t", "m", "l", ".", "s", "h", "e", "e", "t">>

MimePng == <<"i", "m", "a", "g", "e", "/", "p", "n", "g">>

MimeTextPlain == <<"t", "e", "x", "t", "/", "p", "l", "a", "i", "n">>

\* The MIME types a client declares.
Mimes == {MimePdf, MimePdfUpper, MimeDoc, MimeDocx, MimeXlsx, MimePng, MimeTextPlain}

\* Lengths of the non-blank part of a native PDF text: none, little, and
\* around the OCR threshold.
NativeLens == {0, 2} \cup ((OcrThreshold - 1)..(OcrThreshold + MaxOver))

\* Native PDF texts: white space, n letters, white space.
NativeTexts ==
  {Repeat(<<" ">>, l) \o Repeat(<<"x">>, n) \o Repeat(<<"LF">>, t) :
     l \in 0..MaxPad, n \in NativeLens, t \in 0..MaxPad}

\* "page{i}", the text the OCR engine recognizes on page i.
PageName(i) == <<"p", "a", "g", "e">> \o <<DigitChar[i + 1]>>

\* How one run of the OCR backend ends: tesseract.js cannot be required,
\* Tesseract.recognize rejects, it resolves without data.text, or it
\* resolves with a text.
OcrOutcomes(i) ==
  {[kind |-> "missing", text |-> <<>>],
   [kind |-> "throws", text |-> <<>>],
   [kind |-> "nodata", text |-> <<>>]}
  \cup {[kind |-> "text", text |-> t] : t \in {PageName(i), <<" ">>, <<>>}}

\* Texts mammoth extracts from a Word document.
WordTexts == {<<>>, <<" ">>, <<"J", "o">>}

\* ------------------------------------------------------------------------
\* Errors
\* ------------------------------------------------------------------------

Pending ==
  [status |-> "pending", http |-> 0, error |-> "none", text |-> <<>>,
   parsed |-> NoParsed]

\* new BadRequestException(message); the message names the error:
\*   "No file provided"                                  NoFileProvided
\*   "Unsupported file. Please upload a PDF ..."        UnsupportedFormat
\*   "Failed to parse Word document. ..."               MalformedDocument
\*   "Failed to OCR the uploaded image."                ImageOcrFailed
\*   "Failed to extract text from the provided file..." NoExtractableText
BadRequest(kind) ==
  [status |-> "thrown", http |-> 400, error |-> kind, text |-> <<>>,
   parsed |-> NoParsed]

\* ResumeController.importFile: catch (error) { throw new
\* InternalServerErrorException(error) }: the status becomes 500, the error
\* it wraps stays the one thrown.
ControllerCatch(err) == [err EXCEPT !.http = 500]

\* What a throw inside the call leaves at its boundary.
Thrown(v, kind) ==
  IF v = "controller" THEN ControllerCatch(BadRequest(kind)) ELSE BadRequest(kind)

\* ------------------------------------------------------------------------
\* OcrService.recognizeImageBuffer
\* ------------------------------------------------------------------------

\* A recognizeImageBuffer that lets a rejection of Tesseract.recognize escape.
recognizeImageBufferRaising(o) ==
  IF o.kind = "throws" THEN [raised |-> TRUE, value |-> <<>>]
  ELSE [raised |-> FALSE, value |-> o.text]

\* try { require; recognize; return data?.text ?? "" } catch { return "" }
recognizeImageBuffer(o) ==
  IF o.kind = "missing" THEN [raised |-> FALSE, value |-> <<>>]
  ELSE IF o.kind = "throws" THEN [raised |-> FALSE, value |-> <<>>]
  ELSE IF o.kind = "nodata" THEN [raised |-> FALSE, value |-> <<>>]
  ELSE [raised |-> FALSE, value |-> o.text]

\* ------------------------------------------------------------------------
\* ResumeService.importFromFile and ResumeController.importFile
\* ------------------------------------------------------------------------

\* An OCR trigger that measures the text without trimming it.
NeedsOcrUntrimmed(t) == t = <<>> \/ Len(t) < OcrThreshold

\* if (!text || text.trim().length < 20)
NeedsOcr(t) == t = <<>> \/ Len(Trim(t)) < OcrThreshold

\* An aggregation that puts the newest page first.
AppendPageReversed(acc, pageText) ==
  IF pageText # <<>> THEN pageText \o <<"LF">> \o acc ELSE acc

\* if (pageText) { extractedText += pageText + "\n"; }
AppendPage(acc, pageText) ==
  IF pageText # <<>> THEN acc \o pageText \o <<"LF">> ELSE acc

\* A fallback that takes the OCR text whatever it is.
UseOcrAlways(t, ocr) == ocr

\* if (ocrText) { text = ocrText; }
UseOcr(t, ocr) == IF ocr # <<>> THEN ocr ELSE t

\* ------------------------------------------------------------------------
\* ResumeService over the resume table: the pure pieces
\* ------------------------------------------------------------------------

\* The service calls that may be in flight together.
MaxCalls == 3

CallIds == 1..MaxCalls

Users == {"u1", "u2"}

\* file.originalname
FileNames == {<<"C", "V", ".", "p", "d", "f">>, <<"c", "v", " ", "(", "1", ")", ".", "p", "d", "f">>}

\* updateResumeDto
UpdateDtos ==
  {[title |-> <<"E", "d", "i", "t", "e", "d">>, slug |-> <<"c", "v">>, visibility |-> "public", data |-> "edited"]}

NoDto == [title |-> <<>>, slug |-> <<>>, visibility |-> "none", data |-> "none"]

\* A call that has not started.
NoCall ==
  [op |-> "none", cpc |-> "idle", userId |-> "none", id |-> 0,
   baseTitle |-> <<>>, title |-> <<>>, slug |-> <<>>, counter |-> 0,
   findFailed |-> FALSE, dto |-> NoDto, set |-> FALSE, locked |-> FALSE,
   result |-> "none"]

\* file.originalname.replace(/\.[^/.]+$/, ""): the name without its last
\* extension, when that extension is not empty and holds no slash.
BaseTitle(name) ==
  LET dots == {i \in 1..(Len(name) - 1) :
                 /\ name[i] = "."
                 /\ \A j \in (i + 1)..Len(name) : name[j] \notin {"/", "."}}
  IN  IF dots = {} THEN name ELSE SubSeq(name, 1, SetMin(dots) - 1)

\* The decimal digits of a counter.
RECURSIVE DecimalOf(_)
DecimalOf(n) ==
  IF n < 10 THEN <<DigitChar[n + 1]>>
  ELSE DecimalOf(n \div 10) \o <<DigitChar[(n % 10) + 1]>>

\* `${baseTitle} (${counter})`
CounterTitle(base, n) == base \o <<" ", "(">> \o DecimalOf(n) \o <<")">>

\* slugify(title) for titles of letters, digits, spaces, dots and brackets
\* that have no lower-case letter before an upper-case one: lower case,
\* every run of other characters one dash, no dash at either end.
Slugify(title) ==
  LET d    == [i \in 1..Len(title) |->
                 IF LowerChar(title[i]) \in Range(LowerLetters) \cup Digits
                 THEN LowerChar(title[i]) ELSE "-"]
      keep == SelectSeq([i \in 1..Len(d) |-> i],
                LAMBDA i : \/ d[i] # "-"
                           \/ /\ i > 1
                              /\ d[i - 1] # "-"
                              /\ \E j \in (i + 1)..Len(d) : d[j] # "-")
  IN  [k \in 1..Len(keep) |-> d[keep[k]]]

\* prisma.resume.findFirst({ where: { userId, slug } }) finds a row.
SlugExists(rows, u, s) ==
  \E i \in DOMAIN rows : rows[i].userId = u /\ rows[i].slug = s

\* The catch of update: a P2025 is thrown on as an internal server error,
\* any other error ends the call with no value and no error.
UpdateCatch(error) ==
  IF error = "P2025" THEN "InternalServerError" ELSE "undefined"

\* No service call has started and the table is empty.
StoreIdle ==
  /\ resumes = <<>>
  /\ calls = [c \in CallIds |-> NoCall]
  /\ uniqueSlug = TRUE

\* No ingestion call has started.
IngestIdle ==
  /\ via = "none"
  /\ mime = <<>>
  /\ branch = "none"
  /\ text = <<>>
  /\ nativeText = <<>>
  /\ extractStep = "none"
  /\ rasterStep = "none"
  /\ pages = <<>>
  /\ pageIdx = 0
  /\ extractedText = <<>>
  /\ ocrText = <<>>
  /\ recognized = <<>>
  /\ rasterCalls = 0
  /\ ocrCalls = 0
  /\ ocrRaised = FALSE
  /\ outcome = Pending

\* No parse call has started.
ParseIdle ==
  /\ ptext = <<>>
  /\ praw = <<>>
  /\ plines = <<>>
  /\ pidx = 0
  /\ pstate = SectionInit
  /\ pname = [has |-> FALSE, value |-> <<>>]
  /\ pskills = <<>>
  /\ ppc = "idle"

Init ==
  /\ pc = "start"
  /\ IngestIdle
  /\ ParseIdle
  /\ StoreIdle

\* importFromFile called by another provider (ResumeModule exports
\* ResumeService): let text = "".
ServiceImportFromFile ==
  /\ pc = "start"
  /\ \E m \in Mimes : mime' = m
  /\ via' = "service"
  /\ pc' = "dispatch"
  /\ UNCHANGED <<branch, text, nativeText, extractStep, rasterStep, pages, pageIdx,
                 extractedText, ocrText, recognized, rasterCalls, ocrCalls, ocrRaised,
                 outcome>>
  /\ UNCHANGED <<parseVars, storeVars>>

\* importFile up to its first await: no file, an image (OCR'd directly), or
\* anything else (handed to importFromFile).
ControllerImportFile ==
  /\ pc = "start"
  /\ via' = "controller"
  /\ \E hasFile \in BOOLEAN :
       IF ~hasFile
       THEN /\ mime' = <<>>
            /\ outcome' = ControllerCatch(BadRequest("NoFileProvided"))
            /\ pc' = "done"
       ELSE /\ \E m \in Mimes : mime' = m
            /\ outcome' = outcome
            /\ pc' = IF StartsWith(ToLowerCase(mime'), <<"i", "m", "a", "g", "e", "/">>)
                     THEN "controllerOcr" ELSE "dispatch"
  /\ UNCHANGED <<branch, text, nativeText, extractStep, rasterStep, pages, pageIdx,
                 extractedText, ocrText, recognized, rasterCalls, ocrCalls, ocrRaised>>
  /\ UNCHANGED <<parseVars, storeVars>>

\* importFile, image path: text = await recognizeImageBuffer(file.buffer);
\* parsed = parse(text); return { text, parsed }.
ControllerImageOcr ==
  /\ pc = "controllerOcr"
  /\ \E o \in OcrOutcomes(0) :
       LET r == recognizeImageBuffer(o)
       IN  /\ ocrRaised' = (ocrRaised \/ r.raised)
           /\ text' = r.value
           /\ outcome' =
                IF r.raised THEN ControllerCatch(BadRequest("OcrError"))
                ELSE [status |-> "returned", http |-> 200, error |-> "none",
                      text |-> r.value, parsed |-> Parse(r.value)]
  /\ ocrCalls' = ocrCalls + 1
  /\ pc' = "done"
  /\ UNCHANGED <<via, mime, branch, nativeText, extractStep, rasterStep, pages, pageIdx,
                 extractedText, ocrText, recognized, rasterCalls>>
  /\ UNCHANGED <<parseVars, storeVars>>

\* const mime = file.mimetype.toLowerCase(); if (mime.includes("pdf")) ...
\* else if (mime.includes("word") || mime.includes("officedocument")) ...
\* else if (mime.startsWith("image/")) ... else throw.
Dispatch ==
  /\ pc = "dispatch"
  /\ LET m == ToLowerCase(mime)
         b == IF Includes(m, <<"p", "d", "f">>) THEN "pdf"
              ELSE IF Includes(m, <<"w", "o", "r", "d">>) \/ Includes(m, <<"o", "f", "f", "i", "c", "e", "d", "o", "c", "u", "m", "e", "n", "t">>) THEN "word"
              ELSE IF StartsWith(m, <<"i", "m", "a", "g", "e", "/">>) THEN "image"
              ELSE "none"
     IN  /\ branch' = b
         /\ pc' = IF b = "none" THEN "done" ELSE b
         /\ outcome' = IF b = "none" THEN Thrown(via, "UnsupportedFormat") ELSE outcome
  /\ UNCHANGED <<via, mime, text, nativeText, extractStep, rasterStep, pages, pageIdx,
                 extractedText, ocrText, recognized, rasterCalls, ocrCalls, ocrRaised>>
  /\ UNCHANGED <<parseVars, storeVars>>

\* The pdf-parse step: the module cannot be required (pdfParseFunc null), the
\* call rejects, it resolves without a text, or it resolves with a text; then
\* the OCR-fallback test.
PdfParse ==
  /\ pc = "pdf"
  /\ \E o \in {[kind |-> "unavailable", text |-> <<>>],
               [kind |-> "throws", text |-> <<>>],
               [kind |-> "undefined", text |-> <<>>]}
              \cup {[kind |-> "text", text |-> t] : t \in NativeTexts} :
       /\ extractStep' = o.kind
       /\ text' = o.text
       /\ nativeText' = o.text
       /\ pc' = IF NeedsOcr(o.text) THEN "rasterize" ELSE "check"
  /\ UNCHANGED <<via, mime, branch, rasterStep, pages, pageIdx, extractedText, ocrText,
                 recognized, rasterCalls, ocrCalls, ocrRaised, outcome>>
  /\ UNCHANGED <<parseVars, storeVars>>

\* ocrPdfBuffer up to `await convert.bulk(-1, true)`: pdf2pic cannot be
\* required or the conversion rejects (caught: return ""), no page comes out
\* (return ""), or pages come out, each with or without base64 data.
Rasterize ==
  /\ pc = "rasterize"
  /\ rasterCalls' = rasterCalls + 1
  /\ \E o \in {[kind |-> "throws", pages |-> <<>>], [kind |-> "empty", pages |-> <<>>]}
              \cup {[kind |-> "pages", pages |-> ps] :
                      ps \in UNION {[1..n -> BOOLEAN] : n \in 1..MaxPages}} :
       /\ rasterStep' = o.kind
       /\ pages' = o.pages
       /\ IF o.kind = "pages"
          THEN /\ pageIdx' = 1
               /\ pc' = "ocrPage"
               /\ UNCHANGED <<text, ocrText>>
          ELSE /\ pageIdx' = pageIdx
               /\ ocrText' = <<>>
               /\ text' = UseOcr(text, <<>>)
               /\ pc' = "check"
  /\ extractedText' = <<>>
  /\ UNCHANGED <<via, mime, branch, nativeText, extractStep, recognized, ocrCalls,
                 ocrRaised, outcome>>
  /\ UNCHANGED <<parseVars, storeVars>>

\* One iteration of `for (const result of results)`: a page without base64
\* data is passed over, the others are recognized; after the last one,
\* return extractedText.trim() and, back in importFromFile, if (ocrText)
\* text = ocrText.
OcrPage ==
  /\ pc = "ocrPage"
  /\ \E o \in IF pages[pageIdx] THEN OcrOutcomes(pageIdx - 1)
              ELSE {[kind |-> "skipped", text |-> <<>>]} :
       LET r == IF o.kind = "skipped" THEN [raised |-> FALSE, value |-> <<>>]
                ELSE recognizeImageBuffer(o)
           acc == IF r.raised THEN extractedText ELSE AppendPage(extractedText, r.value)
       IN  /\ ocrCalls' = IF o.kind = "skipped" THEN ocrCalls ELSE ocrCalls + 1
           /\ ocrRaised' = (ocrRaised \/ r.raised)
           /\ recognized' =
                Append(recognized,
                       [ocr |-> o.kind # "skipped",
                        failed |-> o.kind \in {"missing", "throws", "nodata"},
                        text |-> r.value])
           /\ extractedText' = acc
           /\ IF pageIdx < Len(pages)
              THEN /\ pageIdx' = pageIdx + 1
                   /\ UNCHANGED <<pc, text, ocrText>>
              ELSE /\ pageIdx' = pageIdx
                   /\ ocrText' = Trim(acc)
                   /\ text' = UseOcr(text, Trim(acc))
                   /\ pc' = "check"
  /\ UNCHANGED <<via, mime, branch, nativeText, extractStep, rasterStep, pages,
                 rasterCalls, outcome>>
  /\ UNCHANGED <<parseVars, storeVars>>

\* A Word branch that treats a parse failure like the PDF branch does: as
\* empty text.
WordExtractLenient ==
  /\ pc = "word"
  /\ \E o \in {[kind |-> "throws", text |-> <<>>], [kind |-> "undefined", text |-> <<>>]}
              \cup {[kind |-> "text", text |-> t] : t \in WordTexts} :
       /\ extractStep' = o.kind
       /\ text' = o.text
  /\ pc' = "check"
  /\ UNCHANGED <<via, mime, branch, nativeText, rasterStep, pages, pageIdx, extractedText,
                 ocrText, recognized, rasterCalls, ocrCalls, ocrRaised, outcome>>
  /\ UNCHANGED <<parseVars, storeVars>>

\* The Word branch: mammoth cannot be required or extractRawText rejects
\* (throw BadRequestException), or it resolves, with result?.value ?? "".
WordExtract ==
  /\ pc = "word"
  /\ \E o \in {[kind |-> "throws", text |-> <<>>], [kind |-> "undefined", text |-> <<>>]}
              \cup {[kind |-> "text", text |-> t] : t \in WordTexts} :
       /\ extractStep' = o.kind
       /\ text' = o.text
       /\ pc' = IF o.kind = "throws" THEN "done" ELSE "check"
       /\ outcome' = IF o.kind = "throws" THEN Thrown(via, "MalformedDocument") ELSE outcome
  /\ UNCHANGED <<via, mime, branch, nativeText, rasterStep, pages, pageIdx, extractedText,
                 ocrText, recognized, rasterCalls, ocrCalls, ocrRaised>>
  /\ UNCHANGED <<parseVars, storeVars>>

\* The image branch of importFromFile: text = (await recognizeImageBuffer) ?? "".
ImageOcr ==
  /\ pc = "image"
  /\ \E o \in OcrOutcomes(0) :
       LET r == recognizeImageBuffer(o)
       IN  /\ ocrRaised' = (ocrRaised \/ r.raised)
           /\ extractStep' = o.kind
           /\ text' = r.value
           /\ pc' = IF r.raised THEN "done" ELSE "check"
           /\ outcome' = IF r.raised THEN Thrown(via, "ImageOcrFailed") ELSE outcome
  /\ ocrCalls' = ocrCalls + 1
  /\ UNCHANGED <<via, mime, branch, nativeText, rasterStep, pages, pageIdx, extractedText,
                 ocrText, recognized, rasterCalls>>
  /\ UNCHANGED <<parseVars, storeVars>>

\* if (!text || !text.trim()) throw new BadRequestException("Failed to extract text ...")
CheckText ==
  /\ pc = "check"
  /\ IF text = <<>> \/ Trim(text) = <<>>
     THEN /\ outcome' = Thrown(via, "NoExtractableText")
          /\ pc' = "done"
     ELSE /\ outcome' = outcome
          /\ pc' = "persist"
  /\ UNCHANGED <<via, mime, branch, text, nativeText, extractStep, rasterStep, pages,
                 pageIdx, extractedText, ocrText, recognized, rasterCalls, ocrCalls,
                 ocrRaised>>
  /\ UNCHANGED <<parseVars, storeVars>>

\* The rest of importFromFile: the resume is stored and returned.
CreateResume ==
  /\ pc = "persist"
  /\ outcome' = [status |-> "returned", http |-> 200, error |-> "none", text |-> text,
                 parsed |-> NoParsed]
  /\ pc' = "done"
  /\ UNCHANGED <<via, mime, branch, text, nativeText, extractStep, rasterStep, pages,
                 pageIdx, extractedText, ocrText, recognized, rasterCalls, ocrCalls,
                 ocrRaised>>
  /\ UNCHANGED <<parseVars, storeVars>>

Next ==
  \/ ServiceImportFromFile
  \/ ControllerImportFile
  \/ ControllerImageOcr
  \/ Dispatch
  \/ PdfParse
  \/ Rasterize
  \/ OcrPage
  \/ WordExtract
  \/ ImageOcr
  \/ CheckText
  \/ CreateResume

Spec == Init /\ [][Next]_vars

\* ------------------------------------------------------------------------
\* ParserService.parse, line by line
\* ------------------------------------------------------------------------

LineExperience == <<"E", "x", "p", "e", "r", "i", "e", "n", "c", "e">>

LineEducation == <<"E", "D", "U", "C", "A", "T", "I", "O", "N">>

LineWorkExperience == <<" ", "W", "o", "r", "k", " ", "e", "x", "p", "e", "r", "i", "e", "n", "c", "e", " ">>

LineJob == <<"D", "e", "v", " ", "-", " ", "A", "c", "m", "e", " ", "(", "2", "0", "1", "9", "-", "2", "0", "2", "2", ")">>

LineDegreeless == <<"B", "S", "c", " ", "@", " ", "M", "I", "T", " ", "2", "0", "1", "5">>

LineExperienceEntry == <<"E", "x", "p", "e", "r", "i", "e", "n", "c", "e", " ", "-", " ", "A", "c", "m", "e", " ", "(", "2", "0", "1", "9", ")">>

LineMasterEntry == <<"M", "a", "s", "t", "e", "r", " ", "C", "h", "e", "f", " ", "EM", " ", "B", "i", "s", "t", "r", "o", " ", "(", "2", "0", "1", "0", ")">>

LineSkills == <<"S", "k", "i", "l", "l", "s", ":", " ", "f", "r", "o", "n", "t", "-", "e", "n", "d", ",", " ", "G", "o", ";", " ", ",", "C">>

LineName == <<"J", "o", "h", "n", " ", "S", "m", "i", "t", "h">>

\* The lines parser inputs are composed of; the empty one is a blank line.
PoolLines ==
  {LineExperience, LineEducation, LineWorkExperience, LineJob, LineDegreeless,
   LineExperienceEntry, LineMasterEntry, LineSkills, LineName, <<>>}

\* Inputs whose skills line comes right before and right after the end of the
\* scanned prefix.
FillerTexts ==
  {Repeat(<<"x", "LF">>, k) \o <<"S", "k", "i", "l", "l", "s", ":", " ", "G", "o">> : k \in {SkillScanLimit - 1, SkillScanLimit}}

\* Inputs taken from the documentation of the parser.
DocumentedTexts ==
  {<<"E", "x", "p", "e", "r", "i", "e", "n", "c", "e", "LF", "S", "e", "n", "i", "o", "r", " ", "E", "n", "g", "i", "n", "e", "e", "r", " ", "-", " ", "A", "c", "m", "e", " ", "C", "o", "r", "p", " ", "(", "2", "0", "1", "9", "-", "2", "0", "2", "2", ")", "LF", "E", "d", "u", "c", "a", "t", "i", "o", "n", "LF", "B", "S", "c", " ", "C", "o", "m", "p", "u", "t", "e", "r", " ", "S", "c", "i", "e", "n", "c", "e", " ", "-", " ", "M", "I", "T", " ", "(", "2", "0", "1", "5", ")">>,
   <<"J", "o", "h", "n", " ", "S", "m", "i", "t", "h", "LF", "S", "o", "f", "t", "w", "a", "r", "e", " ", "E", "n", "g", "i", "n", "e", "e", "r">>,
   <<"J", "O", "H", "N", " ", "S", "M", "I", "T", "H", " ", "-", " ", "R", "E", "S", "U", "M", "E", "LF", "C", "u", "r", "r", "i", "c", "u", "l", "u", "m">>,
   <<"S", "k", "i", "l", "l", "s", " ", "EM", " ", "J", "a", "v", "a", " ", "|", " ", "G", "o">>,
   <<"K", "e", "y", " ", "s", "k", "i", "l", "l", "s", " ", "EN", " ", "J", "a", "v", "a", " ", "BULLET", " ", "G", "o", " ", "MIDDOT", " ", "C", "-", "s", "h", "a", "r", "p", ":", " ", "2">>}

\* First lines at the edges of the name test: one and two characters, 80 and
\* 81 letters, five and six tokens, every accepted punctuation mark, a digit,
\* a tab between two words,
\* and a name that comes after blank lines or after a line that is no name.
NameTexts ==
  {<<"a">>, <<"A", "l">>, Repeat(<<"a">>, 80), Repeat(<<"a">>, 81),
   <<"a", " ", "b", " ", "c", " ", "d", " ", "e">>, <<"a", " ", "b", " ", " ", "c", " ", "d", " ", "e", " ", "f">>, <<"O", "'", "N", "e", "i", "l", ",", " ", "J", ".", "-", "P", ".">>, <<"J", "o", "h", "n", " ", "2">>, <<"A", "l", "TAB", "B", "o">>,
   <<"CR", "LF", " ", "CR", "LF", " ", " ", "J", "a", "n", "e", " ", "D", "o", "e", " ", "CR", "LF", "E", "n", "g", "i", "n", "e", "e", "r">>,
   <<"LF", " ", "J", "O", "H", "N", " ", "S", "M", "I", "T", "H", " ", "-", " ", "R", "E", "S", "U", "M", "E", " ", "CR", "LF", "J", "a", "n", "e", " ", "D", "o", "e">>,
   <<"C", "u", "r", "r", "i", "c", "u", "l", "u", "m", " ", "V", "i", "t", "a", "e", " ", "2", "0", "2", "4", "LF", "J", "a", "n", "e", " ", "D", "o", "e">>}

\* A text with a line before any header, a blank line and a free-text line
\* inside a section, and two sections.
SectionTexts ==
  {<<"P", "r", "e", " ", "-", " ", "X", "y", " ", "(", "2", "0", "0", "0", ")", "LF", "E", "x", "p", "e", "r", "i", "e", "n", "c", "e", "LF", "LF", "D", "e", "v", " ", "-", " ", "A", "c", "m", "e", " ", "(", "2", "0", "1", "9", "-", "2", "0", "2", "2", ")", "LF", "n", "o", "t", "e", "LF", "B", "S", "c", " ", "@", " ", "M", "I", "T", " ", "2", "0", "1", "5", "LF", "E", "d", "u", "c", "a", "t", "i", "o", "n", "LF", "B", "A", " ", "-", " ", "Y", "a", "l", "e", " ", "(", "2", "0", "1", "1", ")">>}

\* The texts parse is called with: up to MaxLines pool lines joined by \n or
\* by \r\n, and the texts above.
ParserTexts ==
  {JoinWith(ls, eol) : ls \in UNION {[1..n -> PoolLines] : n \in 0..MaxLines},
                       eol \in {<<"LF">>, <<"CR", "LF">>}}
  \cup FillerTexts \cup DocumentedTexts \cup NameTexts \cup SectionTexts

InitParse ==
  /\ pc = "idle"
  /\ IngestIdle
  /\ StoreIdle
  /\ ptext \in ParserTexts
  /\ praw = <<>>
  /\ plines = <<>>
  /\ pidx = 0
  /\ pstate = SectionInit
  /\ pname = [has |-> FALSE, value |-> <<>>]
  /\ pskills = <<>>
  /\ ppc = "start"

\* parse up to the section loop: lines, name, skills.
ParseBegin ==
  /\ ppc = "start"
  /\ praw' = RawOf(ptext)
  /\ plines' = Lines(praw')
  /\ pname' = ExtractName(plines')
  /\ pskills' = ExtractSkills(plines')
  /\ pstate' = SectionInit
  /\ pidx' = 1
  /\ ppc' = "loop"
  /\ UNCHANGED ptext
  /\ UNCHANGED <<pc, ingestVars, storeVars>>

\* One iteration of the section loop.
ParseLine ==
  /\ ppc = "loop"
  /\ pidx <= Len(plines)
  /\ pstate' = SectionStep(pstate, plines[pidx])
  /\ pidx' = pidx + 1
  /\ UNCHANGED <<ptext, praw, plines, pname, pskills, ppc>>
  /\ UNCHANGED <<pc, ingestVars, storeVars>>

\* return { name, email, phone, skills, experience, education, raw }
ParseReturn ==
  /\ ppc = "loop"
  /\ pidx > Len(plines)
  /\ ppc' = "done"
  /\ UNCHANGED <<ptext, praw, plines, pidx, pstate, pname, pskills>>
  /\ UNCHANGED <<pc, ingestVars, storeVars>>

NextParse ==
  \/ ParseBegin
  \/ ParseLine
  \/ ParseReturn

SpecParse == InitParse /\ [][NextParse]_vars

\* ------------------------------------------------------------------------
\* ResumeService over the resume table: importFromFile from its slug loop
\* on, update and lock, as calls that interleave at their awaits
\* ------------------------------------------------------------------------

\* The table and the calls are empty; the table has the unique index on
\* (userId, slug) that the controllers' P2002 handling expects, or not.
InitStore ==
  /\ pc = "idle"
  /\ IngestIdle
  /\ ParseIdle
  /\ resumes = <<>>
  /\ calls = [c \in CallIds |-> NoCall]
  /\ uniqueSlug \in BOOLEAN

\* Calls start in the order of their numbers.
CanStart(c) ==
  /\ calls[c].op = "none"
  /\ \A b \in 1..(c - 1) : calls[b].op # "none"

\* importFromFile up to the slug loop: baseTitle, title, counter, slug.
ImportStart(c) ==
  /\ CanStart(c)
  /\ \E u \in Users, f \in FileNames :
       calls' = [calls EXCEPT ![c] =
                   [NoCall EXCEPT !.op = "importFromFile", !.cpc = "find",
                                  !.userId = u,
                                  !.baseTitle = BaseTitle(f),
                                  !.title = BaseTitle(f),
                                  !.counter = 1,
                                  !.slug = Slugify(BaseTitle(f))]]
  /\ UNCHANGED <<resumes, uniqueSlug>>
  /\ UNCHANGED <<pc, ingestVars, parseVars>>

\* One turn of while (true): findFirst; no row ends the loop, a row moves on
\* to the next title and slug, an error of findFirst ends the loop too.
ImportFindSlug(c) ==
  /\ calls[c].op = "importFromFile"
  /\ calls[c].cpc = "find"
  /\ \E failed \in BOOLEAN :
       LET k    == calls[c]
           next == CounterTitle(k.baseTitle, k.counter)
       IN  calls' = [calls EXCEPT ![c] =
                       IF failed
                       THEN [k EXCEPT !.cpc = "create", !.findFailed = TRUE]
                       ELSE IF ~SlugExists(resumes, k.userId, k.slug)
                       THEN [k EXCEPT !.cpc = "create"]
                       ELSE [k EXCEPT !.title = next,
                                      !.slug = Slugify(next),
                                      !.counter = k.counter + 1]]
  /\ UNCHANGED <<resumes, uniqueSlug>>
  /\ UNCHANGED <<pc, ingestVars, parseVars>>

\* prisma.resume.create({ data: { userId, visibility: "private", data, title,
\* slug } }): a new row, or P2002 from the unique index.
ImportCreate(c) ==
  /\ calls[c].op = "importFromFile"
  /\ calls[c].cpc = "create"
  /\ IF uniqueSlug /\ SlugExists(resumes, calls[c].userId, calls[c].slug)
     THEN /\ calls' = [calls EXCEPT ![c].cpc = "done", ![c].result = "P2002"]
          /\ UNCHANGED resumes
     ELSE /\ resumes' = Append(resumes,
                          [userId |-> calls[c].userId, title |-> calls[c].title,
                           slug |-> calls[c].slug, visibility |-> "private",
                           data |-> "imported", locked |-> FALSE])
          /\ calls' = [calls EXCEPT ![c].cpc = "done", ![c].result = "resume",
                                    ![c].id = Len(resumes) + 1]
  /\ UNCHANGED uniqueSlug
  /\ UNCHANGED <<pc, ingestVars, parseVars>>

\* update(userId, id, updateResumeDto) is called, for a row of the table or
\* for an id that has none.
UpdateStart(c) ==
  /\ CanStart(c)
  /\ \E u \in Users, i \in 1..(Len(resumes) + 1), d \in UpdateDtos :
       calls' = [calls EXCEPT ![c] =
                   [NoCall EXCEPT !.op = "update", !.cpc = "find",
                                  !.userId = u, !.id = i, !.dto = d]]
  /\ UNCHANGED <<resumes, uniqueSlug>>
  /\ UNCHANGED <<pc, ingestVars, parseVars>>

\* findUniqueOrThrow({ where: { id } }) and the locked test, with the catch.
UpdateFind(c) ==
  /\ calls[c].op = "update"
  /\ calls[c].cpc = "find"
  /\ LET k == calls[c]
     IN  calls' = [calls EXCEPT ![c] =
                     IF k.id \notin DOMAIN resumes
                     THEN [k EXCEPT !.cpc = "done", !.result = UpdateCatch("P2025")]
                     ELSE IF resumes[k.id].locked
                     THEN [k EXCEPT !.cpc = "done", !.locked = TRUE,
                                    !.result = UpdateCatch("ResumeLocked")]
                     ELSE [k EXCEPT !.cpc = "write"]]
  /\ UNCHANGED <<resumes, uniqueSlug>>
  /\ UNCHANGED <<pc, ingestVars, parseVars>>

\* prisma.resume.update({ data: { title, slug, visibility, data },
\* where: { userId_id } }), with the catch.
UpdateWrite(c) ==
  /\ calls[c].op = "update"
  /\ calls[c].cpc = "write"
  /\ LET i == calls[c].id
         u == calls[c].userId
         d == calls[c].dto
     IN  IF i \notin DOMAIN resumes \/ resumes[i].userId # u
         THEN /\ calls' = [calls EXCEPT ![c].cpc = "done",
                                        ![c].result = UpdateCatch("P2025")]
              /\ UNCHANGED resumes
         ELSE IF /\ uniqueSlug
                 /\ \E j \in DOMAIN resumes \ {i} :
                      resumes[j].userId = u /\ resumes[j].slug = d.slug
         THEN /\ calls' = [calls EXCEPT ![c].cpc = "done",
                                        ![c].result = UpdateCatch("P2002")]
              /\ UNCHANGED resumes
         ELSE /\ resumes' = [resumes EXCEPT ![i].title = d.title,
                                            ![i].slug = d.slug,
                                            ![i].visibility = d.visibility,
                                            ![i].data = d.data]
              /\ calls' = [calls EXCEPT ![c].cpc = "done", ![c].result = "resume"]
  /\ UNCHANGED uniqueSlug
  /\ UNCHANGED <<pc, ingestVars, parseVars>>

\* lock(userId, id, set): prisma.resume.update({ data: { locked: set },
\* where: { userId_id } }).
Lock(c) ==
  /\ CanStart(c)
  /\ \E u \in Users, i \in 1..(Len(resumes) + 1), s \in BOOLEAN :
       IF i \in DOMAIN resumes /\ resumes[i].userId = u
       THEN /\ resumes' = [resumes EXCEPT ![i].locked = s]
            /\ calls' = [calls EXCEPT ![c] =
                           [NoCall EXCEPT !.op = "lock", !.cpc = "done",
                                          !.userId = u, !.id = i, !.set = s,
                                          !.result = "resume"]]
       ELSE /\ UNCHANGED resumes
            /\ calls' = [calls EXCEPT ![c] =
                           [NoCall EXCEPT !.op = "lock", !.cpc = "done",
                                          !.userId = u, !.id = i, !.set = s,
                                          !.result = "P2025"]]
  /\ UNCHANGED uniqueSlug
  /\ UNCHANGED <<pc, ingestVars, parseVars>>

NextStore ==
  \/ \E c \in CallIds : ImportStart(c)
  \/ \E c \in CallIds : ImportFindSlug(c)
  \/ \E c \in CallIds : ImportCreate(c)
  \/ \E c \in CallIds : UpdateStart(c)
  \/ \E c \in CallIds : UpdateFind(c)
  \/ \E c \in CallIds : UpdateWrite(c)
  \/ \E c \in CallIds : Lock(c)

SpecStore == InitStore /\ [][NextStore]_vars

\* ------------------------------------------------------------------------
\* Properties of the ingestion call (checked under Spec)
\* ------------------------------------------------------------------------

\* The PDF branch has come back from its extraction, fallback included.
PdfExtracted == branch = "pdf" /\ pc \in {"check", "persist", "done"}

\* C1: for a PDF, the rasterizer and the OCR engine are called if and only if
\* the trimmed native text has fewer than 20 characters (the rasterizer once,
\* the OCR engine only then), and a pdf-parse that fails or is unavailable
\* counts as empty text: the call goes on to the fallback and can only end
\* with the resume or with NoExtractableText.
C1_OcrIffShortNativeText ==
  /\ pc \in {"rasterize", "ocrPage"} => Len(Trim(nativeText)) < 20
  /\ PdfExtracted =>
       /\ (rasterCalls > 0) <=> (Len(Trim(nativeText)) < 20)
       /\ (ocrCalls > 0) => (Len(Trim(nativeText)) < 20)
       /\ rasterCalls <= 1
  /\ branch = "pdf" /\ extractStep \in {"unavailable", "throws"} =>
       /\ nativeText = <<>>
       /\ pc # "pdf"
       /\ PdfExtracted => rasterCalls = 1
       /\ outcome.error \in {"none", "NoExtractableText"}

\* A PDF whose native text has 20 characters or more, but fewer once trimmed,
\* went through the rasterizer and the OCR engine.
C1_Witness ==
  /\ pc = "done"
  /\ branch = "pdf"
  /\ extractStep = "text"
  /\ Len(nativeText) >= 20
  /\ Len(Trim(nativeText)) = 19
  /\ rasterCalls = 1
  /\ ocrCalls > 0

\* "page0\npage1\n...\npage{n-1}"
RECURSIVE PagesJoined(_)
PagesJoined(n) ==
  IF n = 1 THEN PageName(0) ELSE PagesJoined(n - 1) \o <<"LF">> \o PageName(n - 1)

\* Every page of the rasterizer was recognized, page i as "page{i}".
AllPagesNamed ==
  /\ rasterStep = "pages"
  /\ Len(recognized) = Len(pages)
  /\ \A i \in 1..Len(pages) : recognized[i].ocr /\ recognized[i].text = PageName(i - 1)

\* C2: in the PDF OCR fallback, when the rasterizer yields N pages and page i
\* is recognized as "page{i}", the text ocrPdfBuffer returns, and the final
\* text, is "page0\npage1\n...\npage{N-1}".
C2_PagesJoinedInOrder ==
  PdfExtracted /\ AllPagesNamed =>
    /\ ocrText = PagesJoined(Len(pages))
    /\ text = PagesJoined(Len(pages))

\* Two pages were recognized as "page0" and "page1" and the call returned
\* with "page0\npage1".
C2_Witness ==
  /\ pc = "done"
  /\ branch = "pdf"
  /\ AllPagesNamed
  /\ Len(pages) = 2
  /\ outcome.status = "returned"
  /\ outcome.text = <<"p", "a", "g", "e", "0", "LF", "p", "a", "g", "e", "1">>

\* The fallback ran and brought nothing: the rasterizer failed, yielded no
\* page, or no page was recognized as more than white space.
FallbackBroughtNothing ==
  /\ rasterCalls > 0
  /\ \/ rasterStep \in {"throws", "empty"}
     \/ \A i \in 1..Len(recognized) : Trim(recognized[i].text) = <<>>

\* C3: when the PDF OCR fallback brings nothing, the final text is the native
\* text and the call ends as it would have without the fallback (the resume,
\* or NoExtractableText); the final text differs from the native text only
\* when it is the non-empty OCR text.
C3_FallbackKeepsNativeText ==
  PdfExtracted =>
    /\ FallbackBroughtNothing =>
         /\ text = nativeText
         /\ outcome.error \in {"none", "NoExtractableText"}
    /\ text # nativeText => text # <<>> /\ text = ocrText /\ rasterStep = "pages"

\* The rasterizer failed on a PDF with two native characters, and the resume
\* was made from those.
C3_Witness ==
  /\ pc = "done"
  /\ branch = "pdf"
  /\ rasterStep = "throws"
  /\ Trim(nativeText) = <<"x", "x">>
  /\ outcome.status = "returned"
  /\ outcome.text = nativeText

\* The call went past its extractor: it did not end for want of a file, of a
\* supported format or of a readable Word container.
ExtractionEnded ==
  /\ pc = "done"
  /\ outcome.error \notin {"NoFileProvided", "UnsupportedFormat", "MalformedDocument"}

\* C4: whichever branch was taken, a call whose final text is empty or white
\* space ends with NoExtractableText, and a call whose final text has a
\* character that is not white space never does.
C4_BlankTextIsNoExtractableText ==
  ExtractionEnded =>
    ((Trim(text) = <<>>) <=> (outcome.status = "thrown" /\ outcome.error = "NoExtractableText"))

\* "application/pdf", a Word document type, or image/*.
SupportedFamily(m) ==
  \/ ToLowerCase(m) = MimePdf
  \/ ToLowerCase(m) \in {MimeDoc, MimeDocx}
  \/ StartsWith(ToLowerCase(m), <<"i", "m", "a", "g", "e", "/">>)

\* C5: a document whose MIME type is none of application/pdf, a Word document
\* type and image/* ends with UnsupportedFormat, and only documents of these
\* three families reach an extractor.
C5_OnlySupportedFamiliesDispatched ==
  /\ pc = "done" /\ via # "none" /\ outcome.error # "NoFileProvided"
       /\ ~SupportedFamily(mime) =>
       outcome.status = "thrown" /\ outcome.error = "UnsupportedFormat"
  /\ pc \in {"pdf", "word", "image", "controllerOcr"} => SupportedFamily(mime)

\* C6: for an image/* document the call ends with a text that is not blank
\* or with NoExtractableText, whatever the OCR engine does.
C6_ImageTextOrNoExtractableText ==
  pc = "done" /\ StartsWith(ToLowerCase(mime), <<"i", "m", "a", "g", "e", "/">>) =>
    \/ outcome.status = "returned" /\ Trim(outcome.text) # <<>>
    \/ outcome.status = "thrown" /\ outcome.error = "NoExtractableText"

\* C7: recognizeImageBuffer never raises and returns "" when its backend is
\* missing or fails; the OCR loop of the PDF fallback visits every page, and
\* the text of each page is part of what ocrPdfBuffer returns, whatever
\* happened on the other pages.
C7_OcrNeverRaises ==
  /\ ~ocrRaised
  /\ \A i \in 1..Len(recognized) : recognized[i].failed => recognized[i].text = <<>>
  /\ PdfExtracted /\ rasterStep = "pages" =>
       /\ Len(recognized) = Len(pages)
       /\ \A i \in 1..Len(recognized) : Includes(ocrText, Trim(recognized[i].text))

\* The OCR backend failed on the first of two pages, and the call returned
\* with the text of the second.
C7_Witness ==
  /\ pc = "done"
  /\ branch = "pdf"
  /\ Len(pages) = 2
  /\ Len(recognized) = 2
  /\ recognized[1].ocr /\ recognized[1].failed
  /\ recognized[2].text = <<"p", "a", "g", "e", "1">>
  /\ outcome.status = "returned"
  /\ outcome.text = <<"p", "a", "g", "e", "1">>

\* C8: a Word document whose container cannot be parsed ends with
\* MalformedDocument, and for a Word document neither the rasterizer nor the
\* OCR engine is called, also when the extracted text is short or empty.
C8_WordFailureIsMalformedDocument ==
  /\ branch = "word" => rasterCalls = 0 /\ ocrCalls = 0 /\ rasterStep = "none"
  /\ branch = "word" /\ extractStep = "throws" =>
       /\ pc = "done"
       /\ outcome.status = "thrown"
       /\ outcome.error = "MalformedDocument"

\* A Word document could not be parsed and the call ended with
\* MalformedDocument.
C8_Witness ==
  /\ pc = "done"
  /\ branch = "word"
  /\ extractStep = "throws"
  /\ outcome.error = "MalformedDocument"
  /\ rasterCalls = 0
  /\ ocrCalls = 0

\* ------------------------------------------------------------------------
\* Properties of the parser (checked under SpecParse)
\* ------------------------------------------------------------------------

\* The line starts with "experience" or "work experience".
StartsExperience(l) ==
  \/ StartsWith(ToLowerCase(l), <<"e", "x", "p", "e", "r", "i", "e", "n", "c", "e">>)
  \/ StartsWith(ToLowerCase(l), <<"w", "o", "r", "k", " ", "e", "x", "p", "e", "r", "i", "e", "n", "c", "e">>)

\* The line matches a section-header pattern.
HeaderLine(l) ==
  \/ StartsExperience(l)
  \/ StartsWith(ToLowerCase(l), <<"e", "d", "u", "c", "a", "t", "i", "o", "n">>)
  \/ \E w \in {<<"d", "e", "g", "r", "e", "e">>, <<"u", "n", "i", "v", "e", "r", "s", "i", "t", "y">>, <<"b", "a", "c", "h", "e", "l", "o", "r">>, <<"m", "a", "s", "t", "e", "r">>} :
       Includes(ToLowerCase(l), w)

\* C9: the iteration of the section loop on a line that matches a header
\* pattern sets the current section (experience for "experience" and "work
\* experience", education otherwise) and appends nothing to experience or
\* education, also when the line matches the entry pattern.
C9_HeadersBeforeEntries ==
  [][ppc = "loop" /\ pidx <= Len(plines) /\ HeaderLine(plines[pidx]) =>
       /\ pstate'.experience = pstate.experience
       /\ pstate'.education = pstate.education
       /\ pstate'.section =
            IF StartsExperience(plines[pidx]) THEN "experience" ELSE "education"]_vars

\* Inside the experience section, a line that matches both a header pattern
\* and the entry pattern went by, and no entry came of it.
C9_Witness ==
  /\ ppc = "loop"
  /\ pidx = 3
  /\ plines[1] = LineExperience
  /\ plines[2] = LineMasterEntry
  /\ EntryMatch(plines[2]).ok
  /\ pstate = [section |-> "education", experience |-> <<>>, education |-> <<>>]

\* The part of the line after its first `:`, `-`, en dash or em dash; nothing
\* when it has none.
AfterFirstSeparator(l) ==
  LET hits == {i \in 1..Len(l) : l[i] \in {":", "-", "EN", "EM"}}
  IN  IF hits = {} THEN <<>> ELSE SubSeq(l, SetMin(hits) + 1, Len(l))

\* The skills of the first line, among the first 30, that contains "skill".
FirstSkillLineTokens(lines) ==
  LET n    == IF Len(lines) < 30 THEN Len(lines) ELSE 30
      hits == {i \in 1..n : Includes(ToLowerCase(lines[i]), <<"s", "k", "i", "l", "l">>)}
  IN  IF hits = {} THEN <<>>
      ELSE TrimAndDropEmpty(SplitOn(AfterFirstSeparator(lines[SetMin(hits)]),
                                    {";", ",", "|", "BULLET", "MIDDOT"}))

\* C10: skills is the part after the first `:`, `-`, en dash or em dash of the
\* first line, among the first 30 non-empty ones, that contains "skill",
\* split on `;`, `,`, `|`, bullet and middle dot, each token trimmed and the
\* empty ones dropped: later dashes and colons stay inside the tokens, and
\* skills is empty when there is no such line.
C10_SkillsAfterFirstSeparator ==
  ppc \in {"loop", "done"} => pskills = FirstSkillLineTokens(plines)

\* The first non-empty trimmed line of a text, "" when it has none: what
\* comes before the first line feed of the trimmed text, trimmed.
FirstLine(t) ==
  LET s    == Trim(t)
      hits == {i \in 1..Len(s) : s[i] = "LF"}
  IN  IF hits = {} THEN s ELSE Trim(SubSeq(s, 1, SetMin(hits) - 1))

\* C11 as stated: a first line "JOHN SMITH - RESUME" leaves the name absent,
\* and parse("John Smith\nSoftware Engineer") gives the name "John Smith".
C11_UpperCaseHeadingIsNoName ==
  ppc = "done" =>
    /\ FirstLine(ptext) = <<"J", "O", "H", "N", " ", "S", "M", "I", "T", "H", " ", "-", " ", "R", "E", "S", "U", "M", "E">> => ~pname.has
    /\ ptext = <<"J", "o", "h", "n", " ", "S", "m", "i", "t", "h", "LF", "S", "o", "f", "t", "w", "a", "r", "e", " ", "E", "n", "g", "i", "n", "e", "e", "r">> =>
         pname = [has |-> TRUE, value |-> <<"J", "o", "h", "n", " ", "S", "m", "i", "t", "h">>]

\* C11, amended: a first line "JOHN SMITH - RESUME" (letters, spaces and a
\* dash, four tokens) is taken as the name, and
\* parse("John Smith\nSoftware Engineer") gives the name "John Smith".
C11_UpperCaseHeadingIsTheName ==
  ppc = "done" =>
    /\ FirstLine(ptext) = <<"J", "O", "H", "N", " ", "S", "M", "I", "T", "H", " ", "-", " ", "R", "E", "S", "U", "M", "E">> =>
         pname = [has |-> TRUE, value |-> <<"J", "O", "H", "N", " ", "S", "M", "I", "T", "H", " ", "-", " ", "R", "E", "S", "U", "M", "E">>]
    /\ ptext = <<"J", "o", "h", "n", " ", "S", "m", "i", "t", "h", "LF", "S", "o", "f", "t", "w", "a", "r", "e", " ", "E", "n", "g", "i", "n", "e", "e", "r">> =>
         pname = [has |-> TRUE, value |-> <<"J", "o", "h", "n", " ", "S", "m", "i", "t", "h">>]

\* parse returned for a text that starts with "JOHN SMITH - RESUME", with
\* that line as the name.
C11_Witness ==
  /\ ppc = "done"
  /\ ptext = <<"J", "O", "H", "N", " ", "S", "M", "I", "T", "H", " ", "-", " ", "R", "E", "S", "U", "M", "E", "LF", "C", "u", "r", "r", "i", "c", "u", "l", "u", "m">>
  /\ pname.has
  /\ pname.value = <<"J", "O", "H", "N", " ", "S", "M", "I", "T", "H", " ", "-", " ", "R", "E", "S", "U", "M", "E">>

\* The number of white-space separated tokens of a line.
Tokens(c) ==
  Cardinality({i \in 1..Len(c) :
                 c[i] \notin WhiteSpace /\ (i = 1 \/ c[i - 1] \in WhiteSpace)})

\* Letters, spaces and , . ' - only, 2 to 80 characters, at most 5 tokens.
LooksLikeName(c) ==
  /\ \A i \in 1..Len(c) :
       \/ c[i] \in {" ", ",", ".", "'", "-"}
       \/ \E k \in 1..26 : c[i] = UpperLetters[k] \/ c[i] = LowerLetters[k]
  /\ Len(c) >= 2
  /\ Len(c) <= 80
  /\ Tokens(c) <= 5

C13_RawIsTheInput ==
  /\ ppc \in {"start", "loop", "done"}
  /\ ppc = "loop" => pidx \in 1..(Len(plines) + 1)
  /\ ppc \in {"loop", "done"} => praw = ptext

\* parse returned for a text that starts with \r\n and has no name, skill or
\* section: every structured field is empty and raw is the text.
C13_Witness ==
  /\ ppc = "done"
  /\ Len(ptext) > 2
  /\ ptext[1] = "CR"
  /\ ptext[2] = "LF"
  /\ praw = ptext
  /\ ~pname.has
  /\ pskills = <<>>
  /\ pstate.experience = <<>>
  /\ pstate.education = <<>>

\* Every line of the text, trimmed, the blank ones kept.
AllLines(t) ==
  LET ls == SplitLines(t) IN [i \in 1..Len(ls) |-> Trim(ls[i])]

\* The section the header lines before line i leave: that of the last one.
SectionBefore(ls, i) ==
  LET hs == {j \in 1..(i - 1) : HeaderLine(ls[j])}
  IN  IF hs = {} THEN "none"
      ELSE IF StartsExperience(ls[SetMax(hs)]) THEN "experience"
      ELSE "education"

\* The lines that are no header, match the entry pattern and stand in
\* section sec, in input order.
EntryLines(ls, sec) ==
  SelectSeq([i \in 1..Len(ls) |-> i],
            LAMBDA i : /\ ~HeaderLine(ls[i])
                       /\ EntryMatch(ls[i]).ok
                       /\ SectionBefore(ls, i) = sec)

\* C14: the section is none at first and is always the one the last header
\* line named; when parse returns, experience holds the entries of the lines
\* that match the entry pattern under an experience header, education those
\* under an education header, each in input order, blank lines making no
\* difference and lines before any header giving nothing.
C14_EntriesFollowTheLastHeader ==
  /\ ppc = "start" => pstate.section = "none"
  /\ ppc = "loop" /\ pidx <= Len(plines) + 1 =>
       pstate.section = SectionBefore(plines, pidx)
  /\ ppc = "done" =>
       LET ls == AllLines(ptext)
           ex == EntryLines(ls, "experience")
           ed == EntryLines(ls, "education")
       IN  /\ pstate.experience =
                [k \in 1..Len(ex) |->
                   [title |-> EntryMatch(ls[ex[k]]).a,
                    company |-> EntryMatch(ls[ex[k]]).b,
                    dateRange |-> EntryMatch(ls[ex[k]]).c]]
           /\ pstate.education =
                [k \in 1..Len(ed) |->
                   [degree |-> EntryMatch(ls[ed[k]]).a,
                    institution |-> EntryMatch(ls[ed[k]]).b,
                    dateRange |-> EntryMatch(ls[ed[k]]).c]]

\* parse returned for a text with an entry line before any header, then two
\* entries under "Experience" with a blank line and a free-text line between,
\* then one under "Education".
C14_Witness ==
  /\ ppc = "done"
  /\ ptext \in SectionTexts
  /\ pstate.experience =
       <<[title |-> <<"D", "e", "v">>, company |-> <<"A", "c", "m", "e">>, dateRange |-> <<"2", "0", "1", "9", "-", "2", "0", "2", "2">>],
         [title |-> <<"B", "S", "c">>, company |-> <<"M", "I", "T">>, dateRange |-> <<"2", "0", "1", "5">>]>>
  /\ pstate.education =
       <<[degree |-> <<"B", "A">>, institution |-> <<"Y", "a", "l", "e">>, dateRange |-> <<"2", "0", "1", "1">>]>>

\* ------------------------------------------------------------------------
\* Properties of the resume table (checked under SpecStore)
\* ------------------------------------------------------------------------

\* Only importFromFile calls have started, and no findFirst of theirs failed.
OnlyImports ==
  \A c \in CallIds :
    /\ calls[c].op \in {"none", "importFromFile"}
    /\ ~calls[c].findFailed

\* C15: when importFromFile calls interleave (and nothing else runs), each
\* call that has ended has stored its resume, and no two rows of one user
\* have the same slug.
C15_InterleavedImportsGetDistinctSlugs ==
  OnlyImports =>
    /\ \A c \in CallIds : calls[c].cpc = "done" => calls[c].result = "resume"
    /\ \A i, j \in DOMAIN resumes :
         i # j /\ resumes[i].userId = resumes[j].userId =>
           resumes[i].slug # resumes[j].slug

\* The step is update's, for call c, reading the locked flag of a locked row.
UpdateReadsLocked(c) ==
  /\ calls[c].op = "update"
  /\ calls[c].cpc = "find"
  /\ calls[c].id \in DOMAIN resumes
  /\ resumes[calls[c].id].locked
  /\ calls'[c].cpc # "find"

\* C16: an update that finds its resume locked ends with the ResumeLocked
\* error and changes no row, and a step that changes a locked flag is a lock
\* call.
C16_UpdateOnLockedFailsWithResumeLocked ==
  [][/\ \A c \in CallIds :
          UpdateReadsLocked(c) =>
            calls'[c].result = "ResumeLocked" /\ resumes' = resumes
     /\ \A i \in DOMAIN resumes :
          resumes'[i].locked # resumes[i].locked =>
            \E c \in CallIds :
              calls[c].op = "none" /\ calls'[c].op = "lock" /\ calls'[c].id = i
    ]_vars

====
